---- MODULE Spec2Model ----
(***************************************************************************)
(* Model of the accession lookup service of src/api/main.py: the batch     *)
(* orchestrator fetch_all_nuccore, its workers, the per-term resolver      *)
(* fetch_nuccore with its retry loop, the remote call fetch_data and the   *)
(* candidate check (accession pattern and title containment).              *)
(*                                                                         *)
(* Strings are sequences of one-character strings.  Python's None is the   *)
(* one-element sequence <<"None">>, which no string equals.                *)
(***************************************************************************)
EXTENDS Integers, Sequences, FiniteSets, TLC

None == <<"None">>

Letters ==
    {"A","B","C","D","E","F","G","H","I","J","K","L","M","N","O","P","Q","R","S","T",
     "U","V","W","X","Y","Z","a","b","c","d","e","f","g","h","i","j","k","l","m","n",
     "o","p","q","r","s","t","u","v","w","x","y","z"}

Digits == {"0","1","2","3","4","5","6","7","8","9"}

(* ------------------------------------------------------------------------ *)
(* Bounds of the model.                                                     *)
(* ------------------------------------------------------------------------ *)
\* num_workers ranges over 1..MaxWorkers (the code accepts 1..10).
MaxWorkers == 4
\* max_retries ranges over 0..MaxRetries (the code accepts 0..10).
MaxRetries == 3
\* The transport injects at most MaxFaults faults (rate-limit payloads,
\* transport failures, timeouts, unexpected exceptions) in one behaviour.
MaxFaults == 2
\* One scenario retries a single term up to DeepRetries times, so that the
\* backoff reaches its cap.
DeepRetries == 6

(* ------------------------------------------------------------------------ *)
(* Program constants.                                                       *)
(* ------------------------------------------------------------------------ *)
\* asyncio.Semaphore(3)
SemaphoreLimit == 3
\* if len(id_list) > 10: id_list = id_list[:10]
IdLimit == 10
\* min(1 + (2 ** retries), 10)
BackoffCap == 10
\* REQUEST_TIMEOUT = 15, the default of params.timeout
REQUEST_TIMEOUT == 15

(* ------------------------------------------------------------------------ *)
(* The candidate check of fetch_nuccore.                                    *)
(* ------------------------------------------------------------------------ *)
\* ACCESSION_PATTERN: the three alternatives, each a sequence of character
\* classes: "L" is [A-Za-z], "D" is \d, "." is the literal dot.  Every
\* alternative is anchored at the start (^) and open at the end.
ACCESSION_PATTERN ==
    { <<"L","D","D","D","D","D",".">>,
      <<"L","L","D","D","D","D","D","D",".">>,
      <<"L","L","D","D","D","D","D","D","D","D",".">> }

ClassMatch(cls, ch) ==
    CASE cls = "L" -> ch \in Letters
      [] cls = "D" -> ch \in Digits
      [] OTHER     -> ch = cls

\* A mutated re_match: the pattern is searched for a match of its letter and
\* digit classes only, the literal dot is not required.
re_match_nodot(pattern, s) ==
    \E alt \in pattern :
        /\ Len(s) >= Len(alt) - 1
        /\ \A i \in 1..(Len(alt) - 1) : ClassMatch(alt[i], s[i])

\* re.match(pattern, s): some alternative matches a prefix of s.
re_match(pattern, s) ==
    \E alt \in pattern :
        /\ Len(s) >= Len(alt)
        /\ \A i \in 1..Len(alt) : ClassMatch(alt[i], s[i])

\* Python's "sub in s" on strings, scanning the start positions in order.
RECURSIVE FindFrom(_, _, _)
FindFrom(sub, s, i) ==
    IF i + Len(sub) - 1 > Len(s) THEN FALSE
    ELSE IF SubSeq(s, i, i + Len(sub) - 1) = sub THEN TRUE
    ELSE FindFrom(sub, s, i + 1)

str_in(sub, s) == FindFrom(sub, s, 1)

\* A mutated title_term: the term is matched as it is, never slash-bounded.
title_term_raw(term) == term

\* title_term = term if '/' in term else f'/{term}/'
title_term(term) ==
    IF \E i \in 1..Len(term) : term[i] = "/" THEN term
    ELSE <<"/">> \o term \o <<"/">>

\* Python truthiness of an optional string: None and '' are false.
Truthy(s) == s # None /\ s # <<>>

\* if accession_result and re.match(ACCESSION_PATTERN, accession_result)
\*    and title_term in title_result
\* evaluated left to right: "accept", "reject", or "raise" (a TypeError, when
\* the title is None and the accession has passed the two tests before it).
candidate_check(tt, accession_result, title_result) ==
    IF ~Truthy(accession_result) THEN "reject"
    ELSE IF ~re_match(ACCESSION_PATTERN, accession_result) THEN "reject"
    ELSE IF title_result = None THEN "raise"
    ELSE IF str_in(tt, title_result) THEN "accept"
    ELSE "reject"

\* A mutated handle_retry_error: the wait is 2 ** retries, uncapped.
handle_retry_error_pow(retries) == 2^retries

\* handle_retry_error: wait_time = min(1 + (2 ** retries), 10)
handle_retry_error(retries) ==
    IF 1 + 2^retries < BackoffCap THEN 1 + 2^retries ELSE BackoffCap

(* ------------------------------------------------------------------------ *)
(* Inputs: terms, the remote database and the search index.                 *)
(* ------------------------------------------------------------------------ *)
TermA == <<"a">>
TermSlashA == <<"/","a">>
TermB == <<"b">>
TermC == <<"c">>
TermWA == <<"W","A","-","P","H","L","-","0","0","7","3","2","7">>

TitleA == <<"/","a","/">>
TitleAB == <<"/","a","b","/">>
TitleB == <<"/","b","/">>
TitleWA ==
    <<"U","S","A","/","W","A","-","P","H","L","-","0","0","7","3","2","7","/","2","0","2","1">>
TitleWA5 ==
    <<"U","S","A","/","W","A","-","P","H","L","-","0","0","7","3","2","7","5","/","2","0","2","1">>

AccL5 == <<"A","1","2","3","4","5",".","1">>
AccLL6 == <<"A","B","1","2","3","4","5","6",".","1">>
AccLL8 == <<"A","B","1","2","3","4","5","6","7","8",".","1">>
AccB == <<"B","5","4","3","2","1",".","2">>
AccPQ8 == <<"P","Q","8","8","0","1","8","8",".","1">>
AccPQ9 == <<"P","Q","8","8","0","1","8","9",".","1">>
AccLL5 == <<"A","B","1","2","3","4","5",".","1">>
AccNoDot == <<"A","1","2","3","4","5">>

\* The records the summary call returns, by record id: the fields
\* accessionversion and title of summary_data['result'][uid], None when the
\* field (or the whole record) is absent.
Uids == 1..20

DB ==
    [u \in Uids |->
        CASE u = 1  -> [accessionversion |-> AccL5,  title |-> TitleA]
          [] u = 2  -> [accessionversion |-> AccLL6, title |-> TitleAB]
          [] u = 3  -> [accessionversion |-> AccLL5, title |-> TitleA]
          [] u = 4  -> [accessionversion |-> None,   title |-> TitleA]
          [] u = 5  -> [accessionversion |-> AccLL8, title |-> None]
          [] u = 6  -> [accessionversion |-> None,   title |-> None]
          [] u = 17 -> [accessionversion |-> AccPQ8, title |-> TitleWA]
          [] u = 18 -> [accessionversion |-> AccPQ9, title |-> TitleWA5]
          [] u = 19 -> [accessionversion |-> AccB,   title |-> TitleB]
          [] u = 20 -> [accessionversion |-> <<>>,   title |-> TitleA]
          [] OTHER  -> [accessionversion |-> AccNoDot, title |-> TitleA]]

\* The id lists a search may return for a single term: every list of up to
\* three different ids among 1..6, and one list of eleven ids whose last
\* record is the only one that passes the check.
ShortIdLists ==
    {<<>>} \cup {<<x>> : x \in 1..6}
    \cup {<<x, y>> : x \in 1..6, y \in 1..6}
    \cup {<<x, y, z>> : x \in 1..6, y \in 1..6, z \in 1..6}

LongIdList == <<7, 8, 9, 10, 11, 12, 13, 14, 15, 16, 1>>

NoRepeat(ids) == \A i, j \in 1..Len(ids) : i # j => ids[i] # ids[j]

SingleIdLists == {ids \in ShortIdLists : NoRepeat(ids)} \cup {LongIdList, <<20, 1>>}

\* The batch of the pool scenarios and its search index.
Roster == <<TermA, TermSlashA, TermB, TermC>>

PoolIndex ==
    [t \in {TermA, TermSlashA, TermB, TermC} |->
        CASE t = TermA      -> <<1>>
          [] t = TermSlashA -> <<3, 2>>
          [] t = TermB      -> <<19>>
          [] OTHER          -> <<>>]

Range(seq) == {seq[i] : i \in 1..Len(seq)}

\* The scenarios: the arguments of fetch_all_nuccore and the remote content.
\*  - one term, one worker, any id list of SingleIdLists;
\*  - the documented example term against its two titles;
\*  - one term retried up to DeepRetries times;
\*  - the roster of four terms under 1..MaxWorkers workers;
\*  - batches against a scripted (deterministic) transport, run twice;
\*  - a batch of two terms under more workers than terms;
\*  - one term under a timeout of 2 seconds.
Scenarios ==
    {[terms |-> <<t>>, num_workers |-> 1, max_retries |-> r, faults |-> MaxFaults,
      index |-> [x \in {t} |-> ids], transport |-> "live",
      timeout |-> REQUEST_TIMEOUT] :
        t \in {TermA, TermSlashA}, r \in 0..MaxRetries, ids \in SingleIdLists}
    \cup
    {[terms |-> <<TermWA>>, num_workers |-> 1, max_retries |-> r, faults |-> MaxFaults,
      index |-> [x \in {TermWA} |-> ids], transport |-> "live",
      timeout |-> REQUEST_TIMEOUT] :
        r \in 0..MaxRetries, ids \in {<<17>>, <<18>>, <<18, 17>>, <<17, 18>>}}
    \cup
    {[terms |-> <<TermA>>, num_workers |-> 1, max_retries |-> DeepRetries,
      faults |-> f, index |-> [x \in {TermA} |-> <<1>>], transport |-> "live",
      timeout |-> REQUEST_TIMEOUT] :
        f \in {DeepRetries - 1, DeepRetries}}
    \cup
    {[terms |-> Roster, num_workers |-> n, max_retries |-> r, faults |-> MaxFaults - 1,
      index |-> PoolIndex, transport |-> "live",
      timeout |-> REQUEST_TIMEOUT] :
        n \in 1..MaxWorkers, r \in 0..(MaxRetries - 2)}
    \cup
    {[terms |-> ts, num_workers |-> n, max_retries |-> r, faults |-> MaxFaults - 1,
      index |-> [x \in Range(ts) |-> PoolIndex[x]], transport |-> "mock",
      timeout |-> REQUEST_TIMEOUT] :
        ts \in {<<TermA, TermSlashA>>, <<TermA, TermA>>, <<TermA, TermC, TermA>>},
        n \in 1..2, r \in 0..(MaxRetries - 1)}
    \cup
    {[terms |-> <<TermB, TermC>>, num_workers |-> n, max_retries |-> 1,
      faults |-> MaxFaults - 1, index |-> [x \in {TermB, TermC} |-> PoolIndex[x]],
      transport |-> "live",
      timeout |-> REQUEST_TIMEOUT] :
        n \in 3..MaxWorkers}
    \cup
    {[terms |-> <<TermA>>, num_workers |-> 1, max_retries |-> r, faults |-> MaxFaults,
      index |-> [x \in {TermA} |-> <<3, 1>>], transport |-> "live", timeout |-> 2] :
        r \in 1..2}

(* ------------------------------------------------------------------------ *)
(* State.                                                                   *)
(* ------------------------------------------------------------------------ *)
VARIABLES
    terms,        \* fetch_all_nuccore's argument: the list of terms
    num_workers,  \* params.num_workers
    max_retries,  \* params.max_retries
    index,        \* remote content: term -> idlist of esearch
    transport,    \* "live": any response; "mock": a function of (term, url, count)
    faults,       \* faults the transport may inject in this behaviour
    timeout,      \* params.timeout, in seconds
    budget,       \* faults the transport may still inject
    queue,        \* asyncio.Queue: terms, then None sentinels
    unfinished,   \* the queue's count of unfinished tasks (put - task_done)
    results,      \* the result mapping term -> accession or None
    writes,       \* history: per key, the workers that wrote it, in order
    sem,          \* free permits of the semaphore
    mainpc,       \* fetch_all_nuccore: "join", "gather", "returned"
    wk,           \* per worker: position and locals of worker and fetch_nuccore
    calls,        \* mock transport: (term, url) -> calls issued so far
    script,       \* mock transport: the responses fixed so far, by (term, url, count)
    log,          \* the messages printed with '!!!': <<kind, term>>
    run,          \* 1, or 2 for the re-run of the same batch
    first         \* the mapping the first run returned (empty before)

env == <<terms, num_workers, max_retries, index, transport, faults, timeout>>
vars == <<terms, num_workers, max_retries, index, transport, faults, timeout, budget, queue,
          unfinished, results, writes, sem, mainpc, wk, calls, script, log, run, first>>

Workers == 1..num_workers

\* results = {}
EmptyMap == [x \in {} |-> None]

\* A mutated store: only a found accession is stored.
Put_found_only(m, k, v) ==
    IF v = None THEN m
    ELSE [x \in (DOMAIN m) \cup {k} |-> IF x = k THEN v ELSE m[x]]

\* results[k] = v
Put(m, k, v) == [x \in (DOMAIN m) \cup {k} |-> IF x = k THEN v ELSE m[x]]

\* A worker that has not claimed a term yet.
IdleWorker ==
    [pc |-> "get", term |-> None, result |-> None, how |-> "none",
     retries |-> 0, id_list |-> <<>>, pos |-> 0, uid |-> 0, rl |-> 0, callno |-> 0,
     resp |-> "none", attempts |-> 0, nsum |-> 0, waits |-> <<>>, late |-> FALSE]

\* queue = asyncio.Queue(); results = {}; semaphore = asyncio.Semaphore(3);
\* every term put on the queue; num_workers worker tasks created; the
\* orchestrator waits in queue.join().
Start(sc) ==
    /\ terms = sc.terms
    /\ num_workers = sc.num_workers
    /\ max_retries = sc.max_retries
    /\ index = sc.index
    /\ transport = sc.transport
    /\ faults = sc.faults
    /\ timeout = sc.timeout
    /\ queue = sc.terms
    /\ unfinished = Len(sc.terms)
    /\ results = EmptyMap
    /\ writes = EmptyMap
    /\ sem = SemaphoreLimit
    /\ mainpc = "join"
    /\ wk = [w \in 1..sc.num_workers |-> IdleWorker]
    /\ budget = sc.faults
    /\ calls = {}
    /\ script = {}
    /\ log = {}

Init ==
    /\ \E sc \in Scenarios : Start(sc)
    /\ run = 1
    /\ first = EmptyMap

(* ------------------------------------------------------------------------ *)
(* fetch_nuccore, as steps on the locals l of the worker that runs it.      *)
(* ------------------------------------------------------------------------ *)
\* return term, v: the worker is back at queue.get() with the outcome v.
\* how names the return statement taken: "found" (line 134), "empty" (121),
\* "no_match" (136), "unexpected" (144, after the print of 143), "exhausted"
\* (147, after the print of 146), and "worker_error" for the worker's own
\* except branch (269, after the print of 268).
Ret(l, v, h) ==
    [l EXCEPT !.pc = "get", !.result = v, !.how = h,
              !.id_list = <<>>, !.pos = 0, !.rl = 0, !.callno = 0]

\* A mutated loop test: while retries <= params.max_retries.
while_loop_le(l) ==
    IF l.retries <= max_retries
    THEN [l EXCEPT !.pc = "search", !.rl = l.retries, !.pos = 0,
                   !.id_list = <<>>, !.attempts = @ + 1]
    ELSE Ret(l, None, "exhausted")

\* A mutated loop test: the retry counter is shared by all terms in flight.
while_loop_shared(l) ==
    IF \A v \in Workers : wk[v].retries < max_retries
    THEN [l EXCEPT !.pc = "search", !.rl = l.retries, !.pos = 0,
                   !.id_list = <<>>, !.attempts = @ + 1]
    ELSE Ret(l, None, "exhausted")

\* A mutated loop: after a failure in a summary call the next attempt skips
\* the search and asks again the summary of the candidate that failed.
while_loop_resume(l) ==
    IF l.retries < max_retries
    THEN IF l.pos > 0
         THEN [l EXCEPT !.pc = "summary", !.rl = l.retries, !.attempts = @ + 1,
                        !.nsum = @ + 1]
         ELSE [l EXCEPT !.pc = "search", !.rl = l.retries, !.pos = 0,
                        !.id_list = <<>>, !.attempts = @ + 1]
    ELSE Ret(l, None, "exhausted")

\* while retries < params.max_retries: start an attempt with the search call
\* (fetch_data is given retries=retries); otherwise fall out of the loop.
while_loop(l) ==
    IF l.retries < max_retries
    THEN [l EXCEPT !.pc = "search", !.rl = l.retries, !.pos = 0,
                   !.id_list = <<>>, !.attempts = @ + 1]
    ELSE Ret(l, None, "exhausted")

\* id_list[:10]
Truncate(ids) == IF Len(ids) > IdLimit THEN SubSeq(ids, 1, IdLimit) ELSE ids

\* A mutated search step: an empty id list is taken for a transient failure
\* and retried after the backoff.
on_search_retry_empty(l) ==
    LET id_list == Truncate(index[l.term]) IN
    IF id_list = <<>>
    THEN [l EXCEPT !.pc = "backoff",
                   !.waits = Append(@, handle_retry_error(l.retries)),
                   !.retries = @ + 1]
    ELSE [l EXCEPT !.pc = "summary", !.id_list = id_list, !.pos = 1,
                   !.uid = id_list[1], !.rl = l.retries, !.nsum = @ + 1]

\* The search call returned its payload: an empty id list ends the term, a
\* non-empty one is cut to its first ten ids and the first summary is asked.
on_search(l) ==
    LET id_list == Truncate(index[l.term]) IN
    IF id_list = <<>> THEN Ret(l, None, "empty")
    ELSE [l EXCEPT !.pc = "summary", !.id_list = id_list, !.pos = 1,
                   !.uid = id_list[1], !.rl = l.retries, !.nsum = @ + 1]

\* The summary call for id_list[pos] returned its payload.
on_summary(l) ==
    LET rec == DB[l.uid]
        chk == candidate_check(title_term(l.term), rec.accessionversion, rec.title)
    IN  CASE chk = "accept" -> Ret(l, rec.accessionversion, "found")
          [] chk = "raise"  -> Ret(l, None, "unexpected")
          [] OTHER ->
                IF l.pos < Len(l.id_list)
                THEN [l EXCEPT !.pos = @ + 1, !.uid = l.id_list[l.pos + 1],
                               !.rl = l.retries, !.nsum = @ + 1]
                ELSE Ret(l, None, "no_match")

\* A remote call did not return a usable payload.
\*  "ratelimit":    fetch_data sleeps 2 ** retries and calls itself again with
\*                  retries + 1 (its own parameter, not the term's counter).
\*                  In the search call the sleeps run under asyncio.timeout:
\*                  when they add up to params.timeout the sleep is
\*                  interrupted by TimeoutError, as for "timeout";
\*  "client_error", "timeout": the except branch of line 138: the wait is
\*                  computed, retries incremented, then the sleep;
\*  "unexpected":   the except branch of line 142;
\*  "handler_raise": the except branch itself raises, the exception leaves
\*                  fetch_nuccore and reaches the worker's except branch;
\*  "stall":        the deadline of the attempt (params.timeout after its
\*                  start) passes while a summary call is awaited.  The
\*                  summary calls are outside the block of asyncio.timeout
\*                  (lines 113-117 hold the search call only): nothing is
\*                  raised, the payload arrives and is processed, and late
\*                  records that the attempt went on past its deadline.  In
\*                  the search call the deadline raises TimeoutError, which
\*                  is the kind "timeout".
FaultKinds == {"ratelimit", "client_error", "timeout", "unexpected", "handler_raise"}

\* The seconds fetch_data has slept for rate limits in the call l waits for,
\* the sleep for the payload just received included: fetch_data started at
\* retries and sleeps 2 ** retries, 2 ** (retries + 1), ..., 2 ** rl.
rate_limit_slept(l) == 2^(l.rl + 1) - 2^(l.retries)

\* A mutated handling of rate limits: a rate-limit payload counts as a
\* term-level failure.
on_error_rl_counts(l, kind) ==
    CASE kind = "ratelimit" ->
            [l EXCEPT !.pc = "backoff",
                      !.waits = Append(@, handle_retry_error(l.retries)),
                      !.retries = @ + 1]
      [] kind \in {"client_error", "timeout"} ->
            [l EXCEPT !.pc = "backoff",
                      !.waits = Append(@, handle_retry_error(l.retries)),
                      !.retries = @ + 1]
      [] kind = "unexpected" -> Ret(l, None, "unexpected")
      [] kind = "stall" -> on_summary([l EXCEPT !.late = TRUE])
      [] OTHER -> Ret(l, None, "worker_error")

\* A mutated except clause: every exception of the attempt is retried.
on_error_retry_all(l, kind) ==
    CASE kind = "ratelimit" ->
            IF l.pc = "search" /\ rate_limit_slept(l) >= timeout
            THEN [l EXCEPT !.pc = "backoff",
                           !.waits = Append(@, handle_retry_error(l.retries)),
                           !.retries = @ + 1]
            ELSE [l EXCEPT !.rl = @ + 1,
                           !.nsum = IF l.pc = "summary" THEN @ + 1 ELSE @]
      [] kind \in {"client_error", "timeout", "unexpected"} ->
            [l EXCEPT !.pc = "backoff",
                      !.waits = Append(@, handle_retry_error(l.retries)),
                      !.retries = @ + 1]
      [] kind = "stall" -> on_summary([l EXCEPT !.late = TRUE])
      [] OTHER -> Ret(l, None, "worker_error")

on_error(l, kind) ==
    CASE kind = "ratelimit" ->
            IF l.pc = "search" /\ rate_limit_slept(l) >= timeout
            THEN [l EXCEPT !.pc = "backoff",
                           !.waits = Append(@, handle_retry_error(l.retries)),
                           !.retries = @ + 1]
            ELSE [l EXCEPT !.rl = @ + 1,
                           !.nsum = IF l.pc = "summary" THEN @ + 1 ELSE @]
      [] kind \in {"client_error", "timeout"} ->
            [l EXCEPT !.pc = "backoff",
                      !.waits = Append(@, handle_retry_error(l.retries)),
                      !.retries = @ + 1]
      [] kind = "unexpected" -> Ret(l, None, "unexpected")
      [] kind = "stall" -> on_summary([l EXCEPT !.late = TRUE])
      [] OTHER -> Ret(l, None, "worker_error")

(* ------------------------------------------------------------------------ *)
(* The transport.                                                           *)
(* ------------------------------------------------------------------------ *)
\* The url of the call a worker is waiting for: 0 for esearch of its term,
\* the record id for esummary.
Url(l) == IF l.pc = "search" THEN 0 ELSE l.uid

Key(l) == <<l.term, Url(l), l.callno>>

Scripted(l) == {e \in script : e.key = Key(l)}

\* The responses the transport may give to the call worker locals l wait for.
Kinds(l) ==
    IF transport = "mock" /\ Scripted(l) # {}
    THEN {e.kind : e \in Scripted(l)}
    ELSE {"ok"} \cup (IF budget > 0 THEN FaultKinds ELSE {})
                \cup (IF budget > 0 /\ l.pc = "summary" THEN {"stall"} ELSE {})

\* The locals once the response has arrived: resp remembers its kind.
Got(l, kind) == [l EXCEPT !.resp = kind]

Respond(l, kind) ==
    /\ script' = IF transport = "mock"
                 THEN script \cup {[key |-> Key(l), kind |-> kind]}
                 ELSE script
    /\ budget' = IF kind # "ok" /\ Scripted(l) = {} THEN budget - 1 ELSE budget

(* ------------------------------------------------------------------------ *)
(* Workers and the orchestrator.                                            *)
(* ------------------------------------------------------------------------ *)
\* The write of key k by worker w, added to the history of writes.
Written(m, k, w) ==
    [x \in (DOMAIN m) \cup {k} |->
        IF x # k THEN m[x] ELSE IF k \in DOMAIN m THEN Append(m[k], w) ELSE <<w>>]

\* A mutated worker: the outcome is stored under the first term of the batch
\* instead of the worker's own term.
Commit_first_key(w, l2, s) ==
    LET returned == l2.pc = "get"
        issued   == l2.pc \in {"search", "summary"} /\ transport = "mock"
        n        == 1 + Cardinality({c \in calls : c[1] = l2.term /\ c[2] = Url(l2)})
    IN  /\ wk' = [wk EXCEPT ![w] = IF issued THEN [l2 EXCEPT !.callno = n] ELSE l2]
        /\ results' = IF returned THEN Put(results, terms[1], l2.result) ELSE results
        /\ writes' = IF returned THEN Written(writes, terms[1], w) ELSE writes
        /\ sem' = IF returned THEN s + 1 ELSE s
        /\ unfinished' = IF returned THEN unfinished - 1 ELSE unfinished
        /\ calls' = IF issued THEN calls \cup {<<l2.term, Url(l2), n>>} ELSE calls
        /\ log' = IF returned /\ l2.how \in {"unexpected", "exhausted", "worker_error"}
                  THEN log \cup {<<l2.how, l2.term>>}
                  ELSE log

\* A mutated worker: None is stored for the term at every failed attempt,
\* before the backoff, and the outcome at the end.
Commit_store_each_failure(w, l2, s) ==
    LET returned == l2.pc = "get"
        failed   == l2.pc = "backoff" /\ wk[w].pc # "backoff"
        issued   == l2.pc \in {"search", "summary"} /\ transport = "mock"
        n        == 1 + Cardinality({c \in calls : c[1] = l2.term /\ c[2] = Url(l2)})
    IN  /\ wk' = [wk EXCEPT ![w] = IF issued THEN [l2 EXCEPT !.callno = n] ELSE l2]
        /\ results' = IF returned \/ failed THEN Put(results, l2.term, l2.result)
                       ELSE results
        /\ writes' = IF returned \/ failed THEN Written(writes, l2.term, w) ELSE writes
        /\ sem' = IF returned THEN s + 1 ELSE s
        /\ unfinished' = IF returned THEN unfinished - 1 ELSE unfinished
        /\ calls' = IF issued THEN calls \cup {<<l2.term, Url(l2), n>>} ELSE calls
        /\ log' = IF returned /\ l2.how \in {"unexpected", "exhausted", "worker_error"}
                  THEN log \cup {<<l2.how, l2.term>>}
                  ELSE log

\* A mutated worker: an exception that reaches it ends the worker, which
\* stores nothing and does not call task_done().
Commit_worker_dies(w, l2, s) ==
    LET returned == l2.pc = "get"
        died     == returned /\ l2.how = "worker_error"
        issued   == l2.pc \in {"search", "summary"} /\ transport = "mock"
        n        == 1 + Cardinality({c \in calls : c[1] = l2.term /\ c[2] = Url(l2)})
    IN  /\ wk' = [wk EXCEPT ![w] = IF died THEN [l2 EXCEPT !.pc = "exited"]
                                   ELSE IF issued THEN [l2 EXCEPT !.callno = n] ELSE l2]
        /\ results' = IF returned /\ ~died THEN Put(results, l2.term, l2.result) ELSE results
        /\ writes' = IF returned /\ ~died THEN Written(writes, l2.term, w) ELSE writes
        /\ sem' = IF returned THEN s + 1 ELSE s
        /\ unfinished' = IF returned /\ ~died THEN unfinished - 1 ELSE unfinished
        /\ calls' = IF issued THEN calls \cup {<<l2.term, Url(l2), n>>} ELSE calls
        /\ log' = IF returned /\ l2.how \in {"unexpected", "exhausted", "worker_error"}
                  THEN log \cup {<<l2.how, l2.term>>}
                  ELSE log

\* A mutated fetch_nuccore: the permit is released by hand before each
\* return, and not when an exception leaves the function.
Commit_leak(w, l2, s) ==
    LET returned == l2.pc = "get"
        issued   == l2.pc \in {"search", "summary"} /\ transport = "mock"
        n        == 1 + Cardinality({c \in calls : c[1] = l2.term /\ c[2] = Url(l2)})
    IN  /\ wk' = [wk EXCEPT ![w] = IF issued THEN [l2 EXCEPT !.callno = n] ELSE l2]
        /\ results' = IF returned THEN Put(results, l2.term, l2.result) ELSE results
        /\ writes' = IF returned THEN Written(writes, l2.term, w) ELSE writes
        /\ sem' = IF returned /\ l2.how # "worker_error" THEN s + 1 ELSE s
        /\ unfinished' = IF returned THEN unfinished - 1 ELSE unfinished
        /\ calls' = IF issued THEN calls \cup {<<l2.term, Url(l2), n>>} ELSE calls
        /\ log' = IF returned /\ l2.how \in {"unexpected", "exhausted", "worker_error"}
                  THEN log \cup {<<l2.how, l2.term>>}
                  ELSE log

\* The end of a worker step that leaves fetch_nuccore's locals as l2, with s
\* permits free before any release.  If fetch_nuccore returned (or raised),
\* the permit is released (async with semaphore), the worker stores the
\* outcome under its term and calls queue.task_done().  If the step ends in a
\* remote call, the call is issued and numbered per (term, url).
Commit(w, l2, s) ==
    LET returned == l2.pc = "get"
        issued   == l2.pc \in {"search", "summary"} /\ transport = "mock"
        n        == 1 + Cardinality({c \in calls : c[1] = l2.term /\ c[2] = Url(l2)})
    IN  /\ wk' = [wk EXCEPT ![w] = IF issued THEN [l2 EXCEPT !.callno = n] ELSE l2]
        /\ results' = IF returned THEN Put(results, l2.term, l2.result) ELSE results
        /\ writes' = IF returned THEN Written(writes, l2.term, w) ELSE writes
        /\ sem' = IF returned THEN s + 1 ELSE s
        /\ unfinished' = IF returned THEN unfinished - 1 ELSE unfinished
        /\ calls' = IF issued THEN calls \cup {<<l2.term, Url(l2), n>>} ELSE calls
        /\ log' = IF returned /\ l2.how \in {"unexpected", "exhausted", "worker_error"}
                  THEN log \cup {<<l2.how, l2.term>>}
                  ELSE log

\* A mutated semaphore that is never locked (fetch_nuccore run without one).
locked_never(s) == FALSE

\* asyncio.Semaphore.locked(): no permit is free.
locked(s) == s = 0

\* A mutated queue (asyncio.LifoQueue): get() returns the item put last.
WorkerGet_lifo(w) ==
    /\ wk[w].pc = "get"
    /\ \A v \in Workers : v < w => wk[v].pc # "get"
    /\ queue # <<>>
    /\ queue' = SubSeq(queue, 1, Len(queue) - 1)
    /\ UNCHANGED <<env, budget, script, mainpc, run, first>>
    /\ LET term == queue[Len(queue)]
           l == [IdleWorker EXCEPT !.term = term]
       IN  IF term = None
           THEN /\ wk' = [wk EXCEPT ![w] = [IdleWorker EXCEPT !.pc = "exited"]]
                /\ unfinished' = unfinished - 1
                /\ UNCHANGED <<results, writes, sem, calls, log>>
           ELSE IF ~locked(sem)
           THEN Commit(w, while_loop(l), sem - 1)
           ELSE /\ wk' = [wk EXCEPT ![w] = [l EXCEPT !.pc = "acquire"]]
                /\ UNCHANGED <<results, writes, sem, unfinished, calls, log>>

\* term = await queue.get(); a sentinel ends the worker; a term enters
\* fetch_nuccore, which takes a permit at once if one is free.
WorkerGet(w) ==
    /\ wk[w].pc = "get"
    /\ \A v \in Workers : v < w => wk[v].pc # "get"
    /\ queue # <<>>
    /\ queue' = Tail(queue)
    /\ UNCHANGED <<env, budget, script, mainpc, run, first>>
    /\ LET term == Head(queue)
           l == [IdleWorker EXCEPT !.term = term]
       IN  IF term = None
           THEN /\ wk' = [wk EXCEPT ![w] = [IdleWorker EXCEPT !.pc = "exited"]]
                /\ unfinished' = unfinished - 1
                /\ UNCHANGED <<results, writes, sem, calls, log>>
           ELSE IF ~locked(sem)
           THEN Commit(w, while_loop(l), sem - 1)
           ELSE /\ wk' = [wk EXCEPT ![w] = [l EXCEPT !.pc = "acquire"]]
                /\ UNCHANGED <<results, writes, sem, unfinished, calls, log>>

\* async with semaphore: a waiting worker gets a permit.
Acquire(w) ==
    /\ wk[w].pc = "acquire"
    /\ ~locked(sem)
    /\ Commit(w, while_loop(wk[w]), sem - 1)
    /\ UNCHANGED <<env, budget, script, queue, mainpc, run, first>>

\* The esearch call of a worker gets its response.
SearchResponse(w) ==
    /\ wk[w].pc = "search"
    /\ \E kind \in Kinds(wk[w]) :
        /\ Respond(wk[w], kind)
        /\ Commit(w, IF kind = "ok" THEN on_search(Got(wk[w], kind))
                     ELSE on_error(Got(wk[w], kind), kind), sem)
    /\ UNCHANGED <<env, queue, mainpc, run, first>>

\* The esummary call of a worker gets its response.
SummaryResponse(w) ==
    /\ wk[w].pc = "summary"
    /\ \E kind \in Kinds(wk[w]) :
        /\ Respond(wk[w], kind)
        /\ Commit(w, IF kind = "ok" THEN on_summary(Got(wk[w], kind))
                     ELSE on_error(Got(wk[w], kind), kind), sem)
    /\ UNCHANGED <<env, queue, mainpc, run, first>>

\* await asyncio.sleep(wait_time) is over: back to the loop test.
BackoffDone(w) ==
    /\ wk[w].pc = "backoff"
    /\ Commit(w, while_loop(wk[w]), sem)
    /\ UNCHANGED <<env, budget, script, queue, mainpc, run, first>>

\* A mutated orchestrator: the sentinels are put without waiting for
\* queue.join().
JoinDone_early ==
    /\ mainpc = "join"
    /\ queue' = queue \o [i \in 1..num_workers |-> None]
    /\ unfinished' = unfinished + num_workers
    /\ mainpc' = "gather"
    /\ UNCHANGED <<env, budget, script, results, writes, sem, wk, calls, log,
                   run, first>>

\* A mutated orchestrator: one sentinel too few is put on the queue.
JoinDone_short ==
    /\ mainpc = "join"
    /\ unfinished = 0
    /\ queue' = queue \o [i \in 1..(num_workers - 1) |-> None]
    /\ unfinished' = unfinished + num_workers - 1
    /\ mainpc' = "gather"
    /\ UNCHANGED <<env, budget, script, results, writes, sem, wk, calls, log,
                   run, first>>

\* await queue.join() returns; one sentinel per worker is put on the queue.
JoinDone ==
    /\ mainpc = "join"
    /\ unfinished = 0
    /\ queue' = queue \o [i \in 1..num_workers |-> None]
    /\ unfinished' = unfinished + num_workers
    /\ mainpc' = "gather"
    /\ UNCHANGED <<env, budget, script, results, writes, sem, wk, calls, log,
                   run, first>>

\* await asyncio.gather(*workers) returns; return results.
GatherDone ==
    /\ mainpc = "gather"
    /\ \A w \in Workers : wk[w].pc = "exited"
    /\ mainpc' = "returned"
    /\ UNCHANGED <<env, budget, script, queue, unfinished, results, writes, sem, wk,
                   calls, log, run, first>>

\* The same batch is run again against the same scripted transport:
\* fetch_all_nuccore builds a fresh queue, mapping and semaphore.
Rerun ==
    /\ mainpc = "returned"
    /\ transport = "mock"
    /\ run = 1
    /\ run' = 2
    /\ first' = results
    /\ queue' = terms
    /\ unfinished' = Len(terms)
    /\ results' = EmptyMap
    /\ writes' = EmptyMap
    /\ sem' = SemaphoreLimit
    /\ mainpc' = "join"
    /\ wk' = [w \in Workers |-> IdleWorker]
    /\ calls' = {}
    /\ log' = {}
    /\ UNCHANGED <<env, budget, script>>

Next ==
    \/ \E w \in Workers : WorkerGet(w)
    \/ \E w \in Workers : Acquire(w)
    \/ \E w \in Workers : SearchResponse(w)
    \/ \E w \in Workers : SummaryResponse(w)
    \/ \E w \in Workers : BackoffDone(w)
    \/ JoinDone
    \/ GatherDone
    \/ Rerun

Spec == Init /\ [][Next]_vars

\* The event loop runs a task that is ready: as long as some step of the
\* orchestrator or of a worker is possible, one is taken.  The transport
\* answers every call, and its faults (rate-limit payloads among them) are
\* bounded by the budget.
\* The fair behaviours are explored for the batches of several terms, with
\* two workers and with MaxWorkers workers.
FairScenarios ==
    {sc \in Scenarios :
        Len(sc.terms) > 1 /\ sc.max_retries = 1 /\ sc.num_workers \in {2, MaxWorkers}}

FairInit ==
    /\ \E sc \in FairScenarios : Start(sc)
    /\ run = 1
    /\ first = EmptyMap

FairSpec == FairInit /\ [][Next]_vars /\ WF_vars(Next)

(* ------------------------------------------------------------------------ *)
(* Properties.                                                              *)
(* ------------------------------------------------------------------------ *)
\* The accession shapes, spelled out: one letter + 5 digits + ".", two
\* letters + 6 digits + ".", two letters + 8 digits + ".", as a prefix.
HasAccessionShape(s) ==
    \/ /\ Len(s) >= 7
       /\ s[1] \in Letters
       /\ \A i \in 2..6 : s[i] \in Digits
       /\ s[7] = "."
    \/ /\ Len(s) >= 9
       /\ s[1] \in Letters /\ s[2] \in Letters
       /\ \A i \in 3..8 : s[i] \in Digits
       /\ s[9] = "."
    \/ /\ Len(s) >= 11
       /\ s[1] \in Letters /\ s[2] \in Letters
       /\ \A i \in 3..10 : s[i] \in Digits
       /\ s[11] = "."

\* sub occurs in s at some offset.
Substring(sub, s) ==
    \E off \in 0..(Len(s) - Len(sub)) : \A j \in 1..Len(sub) : s[off + j] = sub[j]

\* The term itself when it contains "/", the term between slashes otherwise.
SlashBounded(term) ==
    IF "/" \in Range(term) THEN term ELSE <<"/">> \o term \o <<"/">>

\* A candidate record validates for a term: it has an accession of the
\* accession shape and a title that contains the term's title term.
Validates(term, rec) ==
    /\ rec.accessionversion # None
    /\ HasAccessionShape(rec.accessionversion)
    /\ rec.title # None
    /\ Substring(SlashBounded(term), rec.title)

\* The accession of the first id, among the first ten the search returns for
\* the term, whose record validates; None when there is none.
FirstValid(term) ==
    LET n == IF Len(index[term]) < 10 THEN Len(index[term]) ELSE 10
        ok == {i \in 1..n : Validates(term, DB[index[term][i]])}
    IN  IF ok = {} THEN None
        ELSE DB[index[term][CHOOSE i \in ok : \A j \in ok : i <= j]].accessionversion

\* A worker that has returned from fetch_nuccore and not claimed since.
Returned(w) == wk[w].pc = "get" /\ wk[w].how # "none"

\* Workers inside their remote-call sequence.
InFlight == {w \in Workers : wk[w].pc \in {"search", "summary", "backoff"}}

\* C1: when fetch_all_nuccore returns, the keys of the returned mapping are
\* exactly the distinct input terms.
C1_KeysAreTerms == mainpc = "returned" => DOMAIN results = Range(terms)

C1_Witness ==
    /\ mainpc = "returned"
    /\ Len(terms) = 4
    /\ log # {}
    /\ \E k \in DOMAIN results : results[k] # None
    /\ \E k \in DOMAIN results : results[k] = None

\* C2: at most 3 terms are inside their remote-call sequence at any time,
\* whatever the number of workers.
C2_AtMostThreeInFlight == Cardinality(InFlight) <= 3

C2_Witness ==
    /\ Cardinality(InFlight) = 3
    /\ \E w \in Workers : wk[w].pc = "acquire"
    /\ \E w \in Workers : wk[w].pc = "backoff"

\* C3: every value of the result mapping is None or a string of the accession
\* shape.
C3_ValuesWellFormed ==
    \A k \in DOMAIN results : results[k] = None \/ HasAccessionShape(results[k])

C3_Witness ==
    /\ TermA \in DOMAIN results
    /\ results[TermA] = AccL5
    /\ index[TermA] = <<3, 1>>

\* C4: without any fault of the transport, a term that made an attempt ends
\* with the accession of the first id (of the first ten) whose record
\* validates, whatever the records before it contain.
C4_FirstValidWins ==
    \A w \in Workers :
        (/\ Len(terms) = 1
         /\ transport = "live"
         /\ budget = faults
         /\ Returned(w)
         /\ wk[w].attempts >= 1)
        => wk[w].result = FirstValid(wk[w].term)

\* The wait after the j-th failure (j = 0, 1, ...): 2, 3, 5, 9, then 10.
WaitAfter(j) ==
    CASE j = 0 -> 2
      [] j = 1 -> 3
      [] j = 2 -> 5
      [] j = 3 -> 9
      [] OTHER -> 10

\* C5: the backoffs slept for a term are min(1 + 2^j, 10) after the j-th
\* failure, and a term that succeeds after k failures gets the outcome of the
\* successful attempt.
C5_BackoffThenSuccess ==
    \A w \in Workers :
        /\ Len(wk[w].waits) = wk[w].retries
        /\ \A j \in 1..Len(wk[w].waits) : wk[w].waits[j] = WaitAfter(j - 1)
        /\ (Returned(w) /\ wk[w].how \in {"found", "empty", "no_match"})
            => /\ wk[w].retries < max_retries
               /\ wk[w].result = FirstValid(wk[w].term)

C5_Witness ==
    \E w \in Workers :
        /\ Returned(w)
        /\ wk[w].how = "found"
        /\ wk[w].waits = <<2, 3>>
        /\ wk[w].result = AccL5

\* The backoff reaches its cap.
C5_WitnessCap ==
    \E w \in Workers :
        /\ Returned(w)
        /\ wk[w].how = "found"
        /\ wk[w].waits = <<2, 3, 5, 9, 10>>

\* C6: a term never makes more than max_retries attempts, and a term whose
\* every attempt failed with a transport failure or timeout ends with None.
C6_RetriesBounded ==
    \A w \in Workers :
        /\ wk[w].attempts <= max_retries
        /\ (Returned(w) /\ wk[w].retries = wk[w].attempts)
            => /\ wk[w].result = None
               /\ wk[w].how = "exhausted"
               /\ wk[w].attempts = max_retries

C6_Witness ==
    \E w \in Workers :
        /\ Returned(w)
        /\ wk[w].how = "exhausted"
        /\ wk[w].attempts = 2
        /\ wk[w].resp \in {"client_error", "timeout"}

\* C7: a search that returns an empty id list ends the term with None in
\* that step: no backoff, no retry, no summary call.
C7_EmptyIsFinal ==
    /\ [][\A w \in Workers :
            (/\ wk[w].pc = "search"
             /\ wk'[w] # wk[w]
             /\ wk'[w].resp = "ok"
             /\ index[wk[w].term] = <<>>)
            => /\ wk'[w].pc = "get"
               /\ wk'[w].result = None
               /\ wk'[w].retries = wk[w].retries
               /\ wk'[w].attempts = wk[w].attempts
               /\ wk'[w].waits = wk[w].waits
               /\ wk'[w].nsum = 0
               /\ results' = Put(results, wk[w].term, None)]_vars
    /\ [](\A w \in Workers :
            (wk[w].term # None /\ index[wk[w].term] = <<>>) => wk[w].nsum = 0)

C7_Witness ==
    \E w \in Workers :
        /\ Returned(w)
        /\ wk[w].how = "empty"
        /\ wk[w].resp = "ok"
        /\ wk[w].attempts = 2
        /\ wk[w].waits = <<2>>

\* C8: an exception that leaves fetch_nuccore makes the worker store None for
\* its term, mark the item done and stay in its loop; no other worker and no
\* other entry is touched, and the batch still returns an entry per term.
C8_WorkerErrorIsolated ==
    /\ [][\A w \in Workers :
            (/\ wk[w].pc \in {"search", "summary"}
             /\ wk'[w] # wk[w]
             /\ wk'[w].resp = "handler_raise")
            => /\ wk'[w].pc = "get"
               /\ results' = Put(results, wk[w].term, None)
               /\ unfinished' = unfinished - 1
               /\ queue' = queue
               /\ \A v \in Workers \ {w} : wk'[v] = wk[v]]_vars
    /\ []((mainpc = "returned" /\ \E e \in log : e[1] = "worker_error")
            => \A i \in 1..Len(terms) : terms[i] \in DOMAIN results)

C8_Witness ==
    /\ num_workers = 1
    /\ Len(terms) = 4
    /\ <<"worker_error", terms[1]>> \in log
    /\ results[terms[1]] = None
    /\ wk[1].term = terms[2]
    /\ wk[1].pc = "summary"

\* C9: a candidate is accepted only if its accession has the accession shape
\* and its title contains the title term (the term itself when it contains
\* "/", "/term/" otherwise); WA-PHL-007327 is never accepted against the
\* title USA/WA-PHL-0073275/2021 (record 18).
C9_AcceptedOnlyIfValid ==
    \A w \in Workers :
        (Returned(w) /\ wk[w].how = "found")
        => /\ wk[w].result = DB[wk[w].uid].accessionversion
           /\ HasAccessionShape(DB[wk[w].uid].accessionversion)
           /\ DB[wk[w].uid].title # None
           /\ Substring(SlashBounded(wk[w].term), DB[wk[w].uid].title)
           /\ (wk[w].term = TermWA => DB[wk[w].uid].title # TitleWA5)

C9_Witness ==
    \E w \in Workers :
        /\ Returned(w)
        /\ wk[w].how = "found"
        /\ wk[w].term = TermWA
        /\ index[TermWA] = <<18, 17>>
        /\ DB[wk[w].uid].title = TitleWA
        /\ wk[w].nsum = 2

\* C10 as stated: the re-run of a batch against the same scripted transport
\* returns the mapping of the first run, for every term list.
C10_RerunIdentical == (run = 2 /\ mainpc = "returned") => results = first

\* C10, amended: the re-run returns the mapping of the first run when the
\* term list has no duplicate term.
C10_RerunIdenticalDistinct ==
    (run = 2 /\ mainpc = "returned" /\ NoRepeat(terms)) => results = first

C10_Witness ==
    /\ run = 2
    /\ mainpc = "returned"
    /\ terms = <<TermA, TermSlashA>>
    /\ num_workers = 2
    /\ budget = 0
    /\ results[TermSlashA] = AccLL6

\* The sentinels waiting on the queue and the workers that have ended.
Sentinels == {i \in 1..Len(queue) : queue[i] = None}

Exited == {w \in Workers : wk[w].pc = "exited"}

\* C11: no sentinel is on the queue and no worker has ended while the
\* orchestrator waits in queue.join(); once the sentinels are put, every term
\* has its entry, no worker holds a term, only sentinels are on the queue,
\* and the sentinels still queued plus the workers ended are num_workers (one
\* sentinel per worker); fetch_all_nuccore has returned only with every
\* worker ended and the queue empty.
C11_SentinelProtocol ==
    /\ mainpc = "join" => (Sentinels = {} /\ Exited = {})
    /\ mainpc # "join" =>
            /\ \A i \in 1..Len(terms) : terms[i] \in DOMAIN results
            /\ \A w \in Workers : wk[w].pc \in {"get", "exited"}
            /\ Sentinels = 1..Len(queue)
            /\ Cardinality(Sentinels) + Cardinality(Exited) = num_workers
    /\ mainpc = "returned" =>
            /\ Exited = Workers
            /\ queue = <<>>
            /\ unfinished = 0

C11_Witness ==
    /\ mainpc = "returned"
    /\ num_workers > Len(terms)
    /\ Exited = Workers
    /\ results[TermB] = AccB
    /\ log # {}

\* C12: under fair scheduling every batch run that has started eventually
\* returns, with an entry for every term.
C12_BatchCompletes ==
    (mainpc = "join")
        ~> (mainpc = "returned" /\ \A i \in 1..Len(terms) : terms[i] \in DOMAIN results)

C12_Witness ==
    /\ mainpc = "returned"
    /\ num_workers > SemaphoreLimit
    /\ Len(terms) > SemaphoreLimit
    /\ budget = 0
    /\ \A i \in 1..Len(terms) : terms[i] \in DOMAIN results

\* C13: no attempt goes on once its deadline (params.timeout after its start)
\* has passed, be it in the search call or in a summary call: the attempt is
\* aborted and the term retried.
C13_TimeoutBoundsAttempt == \A w \in Workers : ~wk[w].late

C15_UnexpectedIsFinal ==
    /\ [][\A w \in Workers :
            (/\ wk[w].pc \in {"search", "summary"}
             /\ wk'[w] # wk[w]
             /\ \/ wk'[w].resp = "unexpected"
                \/ /\ wk[w].pc = "summary"
                   /\ wk'[w].resp \in {"ok", "stall"}
                   /\ HasAccessionShape(DB[wk[w].uid].accessionversion)
                   /\ DB[wk[w].uid].title = None)
            => /\ wk'[w].pc = "get"
               /\ wk'[w].result = None
               /\ wk'[w].retries = wk[w].retries
               /\ wk'[w].waits = wk[w].waits
               /\ wk'[w].attempts = wk[w].attempts
               /\ results' = Put(results, wk[w].term, None)
               /\ sem' = sem + 1]_vars
    /\ [](\A w \in Workers :
            wk[w].resp = "unexpected" => (Returned(w) /\ wk[w].result = None))

C15_Witness ==
    \E w \in Workers :
        /\ Returned(w)
        /\ wk[w].how = "unexpected"
        /\ wk[w].resp = "unexpected"
        /\ wk[w].retries = 1
        /\ wk[w].attempts = 2
        /\ max_retries > 2
        /\ results[wk[w].term] = None

\* C16: at every moment the permits taken are exactly one per term inside its
\* attempts and backoffs (a term holds its one permit from before its first
\* attempt until its outcome is produced, a worker outside fetch_nuccore or
\* waiting for a permit holds none), and all 3 permits are free when the
\* batch has returned.
C16_OnePermitPerTerm ==
    /\ sem \in 0..SemaphoreLimit
    /\ sem + Cardinality(InFlight) = SemaphoreLimit
    /\ mainpc \in {"gather", "returned"} => sem = SemaphoreLimit

C16_Witness ==
    /\ mainpc = "returned"
    /\ sem = SemaphoreLimit
    /\ num_workers > SemaphoreLimit
    /\ \E e \in log : e[1] = "worker_error"

\* Workers that hold a claimed term whose outcome is not written yet.
Holding == {w \in Workers : wk[w].pc \in {"acquire", "search", "summary", "backoff"}}

\* The terms still on the queue, and the writes made into the mapping so far.
QueuedTerms == {i \in 1..Len(queue) : queue[i] # None}

NumWrites == Cardinality(UNION {{<<k, i>> : i \in 1..Len(writes[k])} : k \in DOMAIN writes})

\* C17: within a run the queue only loses its head or gains sentinels (no
\* term is put back); a worker keeps its term from the claim to the write,
\* through every retry; every write is made by a worker for the term it
\* claimed and ends that claim; and every item is accounted for exactly once:
\* still queued, held by one worker, or written once.
C17_OneClaimOneWrite ==
    /\ [][run' = run =>
            /\ queue' # queue =>
                    \/ queue # <<>> /\ queue' = Tail(queue)
                    \/ QueuedTerms = {} /\ mainpc = "join" /\ mainpc' = "gather"
            /\ \A w \in Holding : wk'[w].term = wk[w].term
            /\ writes' # writes =>
                    \E w \in Workers :
                        LET claims == wk[w].pc = "get" /\ queue # <<>>
                            t == IF claims THEN Head(queue) ELSE wk[w].term
                        IN  /\ w \in Holding \/ (claims /\ queue' = Tail(queue))
                            /\ writes' = Written(writes, t, w)
                            /\ results' = Put(results, t, wk'[w].result)
                            /\ wk'[w].pc = "get"
                            /\ wk'[w].term = t]_vars
    /\ [](/\ NumWrites + Cardinality(Holding) + Cardinality(QueuedTerms) = Len(terms)
          /\ mainpc # "join" => NumWrites = Len(terms))

C17_Witness ==
    \E w \in Workers :
        /\ Returned(w)
        /\ wk[w].retries = 1
        /\ wk[w].attempts = 2
        /\ Len(terms) > 1
        /\ writes[wk[w].term] = <<w>>
        /\ NumWrites = 1
        /\ Cardinality(Holding) = 1

\* C18 as stated: for every term list, all the writes of a key come from one
\* worker.
C18_SingleWriterPerKey ==
    \A k \in DOMAIN writes : \A i, j \in 1..Len(writes[k]) : writes[k][i] = writes[k][j]

\* C18, amended: when the term list has no duplicate term, every key that is
\* written is a term of the list and is written once, by one worker.
C18_SingleWriterPerKeyDistinct ==
    NoRepeat(terms) =>
        \A k \in DOMAIN writes : k \in Range(terms) /\ Len(writes[k]) = 1

C18_Witness ==
    /\ mainpc = "returned"
    /\ NoRepeat(terms)
    /\ Len(terms) = 4
    /\ DOMAIN writes = Range(terms)
    /\ Cardinality({writes[k][1] : k \in DOMAIN writes}) = 3

\* C19: for every max_retries, 0 included, a term that has reached its
\* outcome has made at least one attempt (one search call was issued for it).
C19_AtLeastOneAttempt == \A w \in Workers : Returned(w) => wk[w].attempts >= 1

\* C20: the terms are claimed in the order of the input list: at every
\* moment the terms still queued are the last terms of the list, in list
\* order, so that a term is taken before every term that follows it; a claim
\* takes the first of them.
C20_ClaimedInListOrder ==
    /\ [](LET k == Cardinality(QueuedTerms)
          IN  /\ QueuedTerms = 1..k
              /\ \A i \in 1..k : queue[i] = terms[Len(terms) - k + i])
    /\ [][\A w \in Workers :
            (wk[w].pc = "get" /\ wk'[w] # wk[w] /\ wk'[w].pc # "exited")
            => wk'[w].term = terms[Len(terms) - Cardinality(QueuedTerms) + 1]]_vars

\* The outcomes are written in another order than the list order: the second
\* term has its entry while the first, claimed before it, is still retried.
C20_Witness ==
    /\ Len(terms) = 4
    /\ terms[2] \in DOMAIN results
    /\ terms[1] \notin DOMAIN results
    /\ \E w \in Workers : wk[w].term = terms[1] /\ wk[w].pc = "backoff"
    /\ \E w \in Workers : wk[w].term = terms[4] /\ wk[w].pc = "acquire"

\* C21: after the backoff that follows a failure (in the search call or in
\* any summary call) the term either is out of attempts or issues the search
\* call again with no id list and no position kept; the search payload
\* starts the candidates at the first id; the summary calls of an attempt go
\* through the ids one by one; an attempt has issued one search call (the
\* attempts are the failures plus the one under way) and its summary calls,
\* rate-limit re-issues aside, are at most 10.
C21_RetryRestarts ==
    /\ [][\A w \in Workers :
            /\ (wk[w].pc = "backoff" /\ wk'[w] # wk[w])
                => \/ /\ wk'[w].pc = "search"
                      /\ wk'[w].pos = 0
                      /\ wk'[w].id_list = <<>>
                      /\ wk'[w].attempts = wk[w].attempts + 1
                   \/ /\ wk'[w].pc = "get"
                      /\ wk'[w].how = "exhausted"
                      /\ wk[w].retries = max_retries
            /\ (wk[w].pc = "search" /\ wk'[w].pc = "summary")
                => /\ wk'[w].pos = 1
                   /\ wk'[w].uid = index[wk[w].term][1]
                   /\ wk'[w].attempts = wk[w].attempts
            /\ (wk[w].pc = "summary" /\ wk'[w].pc = "summary" /\ wk'[w].pos # wk[w].pos)
                => /\ wk'[w].pos = wk[w].pos + 1
                   /\ wk'[w].uid = index[wk[w].term][wk'[w].pos]
                   /\ wk'[w].attempts = wk[w].attempts]_vars
    /\ [](\A w \in Workers :
            /\ wk[w].pos <= IdLimit
            /\ Len(wk[w].id_list) <= IdLimit
            /\ wk[w].pc \in {"search", "summary"} => wk[w].attempts = wk[w].retries + 1
            /\ wk[w].pc = "backoff" => wk[w].attempts = wk[w].retries
            /\ wk[w].pc = "search" => (wk[w].pos = 0 /\ wk[w].id_list = <<>>))

\* A second attempt at its first candidate, after the first attempt failed
\* in the summary call of its second candidate.
C21_Witness ==
    \E w \in Workers :
        /\ wk[w].pc = "summary"
        /\ wk[w].attempts = 2
        /\ wk[w].retries = 1
        /\ wk[w].pos = 1
        /\ wk[w].nsum = 3
        /\ wk[w].rl = 1
        /\ budget = faults - 1
        /\ Len(wk[w].id_list) = 3

====
